---- MODULE Spec2Model ----
(***************************************************************************)
(* dev/train.py: the training driver.  One run of the script is a          *)
(* sequential process over a shared output directory: existence check,     *)
(* mkdir, config load and copy, component construction, training_log.csv   *)
(* header, then the epoch loop (train, evaluate, log row, compare, save).  *)
(* Each statement that touches the file system or calls an external        *)
(* routine is one action, so every intermediate state of a run (and every  *)
(* interleaving of two runs on the same directory) is a state of the model.*)
(***************************************************************************)
EXTENDS Integers, Sequences, FiniteSets, TLC

\* ---------------------------------------------------------------- bounds
MaxEpochs == 3        \* largest num_epochs a config holds
MaxLoss == 1          \* finite validation losses are 0..MaxLoss
MaxTrainLoss == 1     \* training losses are 0..MaxTrainLoss
RaceEpochs == 1       \* largest num_epochs when two runs share a directory

\* ---------------------------------------------------------- float values
\* float("inf") of line 63: above every finite loss.
Inf == MaxLoss + 1
\* A NaN loss, which test_one_epoch returns once the model diverges.
NaN == -1
\* Python's `a < b` on floats: false whenever either side is NaN.
Less(a, b) == a # NaN /\ b # NaN /\ a < b

ValidationLosses == {NaN} \cup (0..MaxLoss) \cup {Inf}
TrainLosses == 0..MaxTrainLoss

\* ------------------------------------------------------------------ runs
Runs == {1, 2}
\* Writer id of whatever an earlier invocation left in the directory.
Earlier == 0

VARIABLES
    active,           \* the runs that were started
    pc,               \* pc[r]: the statement run r executes next
    force,            \* args.force
    cfgOK,            \* whether args.config can be opened and parsed
    cfgEpochs,        \* config["training"]["num_epochs"] in the config file
    num_epochs,       \* the script's num_epochs (line 44)
    iter,             \* next value of range(num_epochs)
    i,                \* the loop variable
    train_loss,
    validation_loss,
    best_loss,
    model,            \* number of train_one_epoch calls applied to the model
    dirExists,        \* args.output_dir.exists()
    config_toml,      \* output_dir / "config.toml"
    training_log,     \* output_dir / "training_log.csv"
    model_pt,         \* output_dir / "model.pt"
    fs0,              \* history: the directory as it was before any run
    setup,            \* history: setup statements run r executed
    calls,            \* history: train_one_epoch / test_one_epoch calls
    trainHist,        \* history: training losses returned, per epoch
    valHist           \* history: validation losses returned, per epoch

proc == <<pc, force, cfgOK, cfgEpochs, num_epochs, iter, i, train_loss,
          validation_loss, best_loss, model>>
fs == <<dirExists, config_toml, training_log, model_pt>>
hist == <<fs0, setup, calls, trainHist, valHist>>
vars == <<active, proc, fs, hist>>

\* ----------------------------------------------------------------- files
\* A file: whether it exists, whose writes its content holds, its content.
NoFile == [exists |-> FALSE, by |-> {}, data |-> <<>>]
HeaderRow == [header |-> <<"epoch", "training_loss", "validation_loss">>]
Row(e, t, v) == [epoch |-> e, training_loss |-> t, validation_loss |-> v]
Snapshot(r, e, m) == <<[run |-> r, epoch |-> e, trained |-> m]>>

OldConfig == [exists |-> TRUE, by |-> {Earlier}, data |-> <<>>]
OldLog == [exists |-> TRUE, by |-> {Earlier},
           data |-> <<HeaderRow, Row(0, 0, 0)>>]
OldModel == [exists |-> TRUE, by |-> {Earlier},
             data |-> Snapshot(Earlier, 0, 1)]

\* The directory before the run: absent, empty, or left by an earlier run.
InitialDirs ==
    { [dir |-> FALSE, config |-> NoFile, log |-> NoFile, model |-> NoFile],
      [dir |-> TRUE, config |-> NoFile, log |-> NoFile, model |-> NoFile],
      [dir |-> TRUE, config |-> OldConfig, log |-> OldLog, model |-> OldModel] }

InitWith(started, epochs) ==
    /\ active = started
    /\ pc = [r \in Runs |-> IF r \in started THEN "check" ELSE "idle"]
    /\ force \in [Runs -> BOOLEAN]
    /\ \A r \in Runs \ started : ~force[r]
    /\ cfgOK \in [Runs -> BOOLEAN]
    /\ \A r \in Runs \ started : cfgOK[r]
    /\ cfgEpochs \in [Runs -> epochs]
    /\ \A r \in Runs \ started : cfgEpochs[r] = 0
    /\ num_epochs = [r \in Runs |-> 0]
    /\ iter = [r \in Runs |-> 0]
    /\ i = [r \in Runs |-> 0]
    /\ train_loss = [r \in Runs |-> 0]
    /\ validation_loss = [r \in Runs |-> 0]
    /\ best_loss = [r \in Runs |-> Inf]
    /\ model = [r \in Runs |-> 0]
    /\ fs0 \in InitialDirs
    /\ dirExists = fs0.dir
    /\ config_toml = fs0.config
    /\ training_log = fs0.log
    /\ model_pt = fs0.model
    /\ setup = [r \in Runs |-> <<>>]
    /\ calls = [r \in Runs |-> <<>>]
    /\ trainHist = [r \in Runs |-> <<>>]
    /\ valHist = [r \in Runs |-> <<>>]

Init == InitWith({1}, 0..MaxEpochs)
InitRace == InitWith(Runs, 0..RaceEpochs)

\* --------------------------------------------------------------- actions
Goto(r, l) == pc' = [pc EXCEPT ![r] = l]
Did(r, s) == setup' = [setup EXCEPT ![r] = Append(@, s)]

\* Mutant of CheckExists: the check no longer stops the run.
CheckExistsIgnored(r) ==
    /\ pc[r] = "check"
    /\ Goto(r, "mkdir")
    /\ UNCHANGED <<active, force, cfgOK, cfgEpochs, num_epochs, iter, i,
                   train_loss, validation_loss, best_loss, model, fs, hist>>

\* lines 34-37: raise FileExistsError unless --force.
CheckExists(r) ==
    /\ pc[r] = "check"
    /\ IF dirExists /\ ~force[r]
         THEN Goto(r, "FileExistsError")
         ELSE Goto(r, "mkdir")
    /\ UNCHANGED <<active, force, cfgOK, cfgEpochs, num_epochs, iter, i,
                   train_loss, validation_loss, best_loss, model, fs, hist>>

\* line 38: mkdir(parents=True, exist_ok=True) never fails on an existing dir.
Mkdir(r) ==
    /\ pc[r] = "mkdir"
    /\ dirExists' = TRUE
    /\ Did(r, "mkdir")
    /\ Goto(r, "load")
    /\ UNCHANGED <<active, force, cfgOK, cfgEpochs, num_epochs, iter, i,
                   train_loss, validation_loss, best_loss, model,
                   config_toml, training_log, model_pt,
                   fs0, calls, trainHist, valHist>>

\* Mutant of LoadConfig: a config that cannot be loaded does not stop the run.
LoadConfigLenient(r) ==
    /\ pc[r] = "load"
    /\ Did(r, "load")
    /\ Goto(r, "copy")
    /\ UNCHANGED <<active, force, cfgOK, cfgEpochs, num_epochs, iter, i,
                   train_loss, validation_loss, best_loss, model, fs,
                   fs0, calls, trainHist, valHist>>

\* line 40: tomllib.load(open(args.config, "rb")) raises on a bad config.
LoadConfig(r) ==
    /\ pc[r] = "load"
    /\ Did(r, "load")
    /\ IF cfgOK[r] THEN Goto(r, "copy") ELSE Goto(r, "ConfigError")
    /\ UNCHANGED <<active, force, cfgOK, cfgEpochs, num_epochs, iter, i,
                   train_loss, validation_loss, best_loss, model, fs,
                   fs0, calls, trainHist, valHist>>

\* line 41: shutil.copyfile(args.config, output_dir / "config.toml").
CopyConfig(r) ==
    /\ pc[r] = "copy"
    /\ config_toml' = [exists |-> TRUE, by |-> {r}, data |-> <<>>]
    /\ Did(r, "copy")
    /\ Goto(r, "build")
    /\ UNCHANGED <<active, force, cfgOK, cfgEpochs, num_epochs, iter, i,
                   train_loss, validation_loss, best_loss, model,
                   dirExists, training_log, model_pt,
                   fs0, calls, trainHist, valHist>>

\* lines 43-56: read num_epochs, build datasets, model, loss, optimizer.
Build(r) ==
    /\ pc[r] = "build"
    /\ num_epochs' = [num_epochs EXCEPT ![r] = cfgEpochs[r]]
    /\ model' = [model EXCEPT ![r] = 0]
    /\ Did(r, "build")
    /\ Goto(r, "header")
    /\ UNCHANGED <<active, force, cfgOK, cfgEpochs, iter, i,
                   train_loss, validation_loss, best_loss, fs,
                   fs0, calls, trainHist, valHist>>

\* Mutant of WriteHeader: the log is opened with mode "a" instead of "w".
WriteHeaderAppend(r) ==
    /\ pc[r] = "header"
    /\ training_log' = [exists |-> TRUE,
                        by |-> training_log.by \cup {r},
                        data |-> Append(training_log.data, HeaderRow)]
    /\ Did(r, "header")
    /\ Goto(r, "best")
    /\ UNCHANGED <<active, force, cfgOK, cfgEpochs, num_epochs, iter, i,
                   train_loss, validation_loss, best_loss, model,
                   dirExists, config_toml, model_pt,
                   fs0, calls, trainHist, valHist>>

\* lines 58-61: open(training_log, "w") truncates, then the header row.
WriteHeader(r) ==
    /\ pc[r] = "header"
    /\ training_log' = [exists |-> TRUE, by |-> {r}, data |-> <<HeaderRow>>]
    /\ Did(r, "header")
    /\ Goto(r, "best")
    /\ UNCHANGED <<active, force, cfgOK, cfgEpochs, num_epochs, iter, i,
                   train_loss, validation_loss, best_loss, model,
                   dirExists, config_toml, model_pt,
                   fs0, calls, trainHist, valHist>>

\* Mutant of InitBestLoss: best_loss starts at 0 instead of infinity.
InitBestLossZero(r) ==
    /\ pc[r] = "best"
    /\ best_loss' = [best_loss EXCEPT ![r] = 0]
    /\ iter' = [iter EXCEPT ![r] = 0]
    /\ Goto(r, "for")
    /\ UNCHANGED <<active, force, cfgOK, cfgEpochs, num_epochs, i,
                   train_loss, validation_loss, model, fs, hist>>

\* line 63: best_loss = float("inf").
InitBestLoss(r) ==
    /\ pc[r] = "best"
    /\ best_loss' = [best_loss EXCEPT ![r] = Inf]
    /\ iter' = [iter EXCEPT ![r] = 0]
    /\ Goto(r, "for")
    /\ UNCHANGED <<active, force, cfgOK, cfgEpochs, num_epochs, i,
                   train_loss, validation_loss, model, fs, hist>>

\* Mutant of ForLoop: range(num_epochs + 1), one epoch too many.
ForLoopInclusive(r) ==
    /\ pc[r] = "for"
    /\ IF iter[r] <= num_epochs[r]
         THEN /\ i' = [i EXCEPT ![r] = iter[r]]
              /\ iter' = [iter EXCEPT ![r] = @ + 1]
              /\ Goto(r, "train")
         ELSE /\ UNCHANGED <<i, iter>>
              /\ Goto(r, "done")
    /\ UNCHANGED <<active, force, cfgOK, cfgEpochs, num_epochs,
                   train_loss, validation_loss, best_loss, model, fs, hist>>

\* line 64: for i in range(num_epochs).
ForLoop(r) ==
    /\ pc[r] = "for"
    /\ IF iter[r] < num_epochs[r]
         THEN /\ i' = [i EXCEPT ![r] = iter[r]]
              /\ iter' = [iter EXCEPT ![r] = @ + 1]
              /\ Goto(r, "train")
         ELSE /\ UNCHANGED <<i, iter>>
              /\ Goto(r, "done")
    /\ UNCHANGED <<active, force, cfgOK, cfgEpochs, num_epochs,
                   train_loss, validation_loss, best_loss, model, fs, hist>>

\* line 65: train_one_epoch updates the model and returns the training loss.
TrainOneEpoch(r) ==
    /\ pc[r] = "train"
    /\ \E t \in TrainLosses :
         /\ train_loss' = [train_loss EXCEPT ![r] = t]
         /\ trainHist' = [trainHist EXCEPT ![r] = Append(@, t)]
    /\ model' = [model EXCEPT ![r] = @ + 1]
    /\ calls' = [calls EXCEPT ![r] = Append(@, [fn |-> "train", epoch |-> i[r]])]
    /\ Goto(r, "test")
    /\ UNCHANGED <<active, force, cfgOK, cfgEpochs, num_epochs, iter, i,
                   validation_loss, best_loss, fs, fs0, setup, valHist>>

\* line 66: test_one_epoch returns the validation loss, any float.
TestOneEpoch(r) ==
    /\ pc[r] = "test"
    /\ \E v \in ValidationLosses :
         /\ validation_loss' = [validation_loss EXCEPT ![r] = v]
         /\ valHist' = [valHist EXCEPT ![r] = Append(@, v)]
    /\ calls' = [calls EXCEPT ![r] = Append(@, [fn |-> "test", epoch |-> i[r]])]
    /\ Goto(r, "log")
    /\ UNCHANGED <<active, force, cfgOK, cfgEpochs, num_epochs, iter, i,
                   train_loss, best_loss, model, fs, fs0, setup, trainHist>>

\* Mutant of AppendLogRow: the two loss columns are swapped.
AppendLogRowSwapped(r) ==
    /\ pc[r] = "log"
    /\ training_log' =
         [exists |-> TRUE,
          by |-> training_log.by \cup {r},
          data |-> Append(training_log.data,
                          Row(i[r], validation_loss[r], train_loss[r]))]
    /\ Goto(r, "if")
    /\ UNCHANGED <<active, force, cfgOK, cfgEpochs, num_epochs, iter, i,
                   train_loss, validation_loss, best_loss, model,
                   dirExists, config_toml, model_pt, hist>>

\* lines 68-70: open(training_log, "a") and one row.
AppendLogRow(r) ==
    /\ pc[r] = "log"
    /\ training_log' =
         [exists |-> TRUE,
          by |-> training_log.by \cup {r},
          data |-> Append(training_log.data,
                          Row(i[r], train_loss[r], validation_loss[r]))]
    /\ Goto(r, "if")
    /\ UNCHANGED <<active, force, cfgOK, cfgEpochs, num_epochs, iter, i,
                   train_loss, validation_loss, best_loss, model,
                   dirExists, config_toml, model_pt, hist>>

\* Mutant of Improved: `<=` instead of `<`.
ImprovedOrEqual(r) ==
    /\ pc[r] = "if"
    /\ IF Less(validation_loss[r], best_loss[r])
            \/ (validation_loss[r] # NaN /\ validation_loss[r] = best_loss[r])
         THEN /\ best_loss' = [best_loss EXCEPT ![r] = validation_loss[r]]
              /\ Goto(r, "save")
         ELSE /\ UNCHANGED best_loss
              /\ Goto(r, "for")
    /\ UNCHANGED <<active, force, cfgOK, cfgEpochs, num_epochs, iter, i,
                   train_loss, validation_loss, model, fs, hist>>

\* Mutant of Improved: best_loss is assigned outside the if, so each epoch
\* is compared with the one before it.
ImprovedOnLast(r) ==
    /\ pc[r] = "if"
    /\ best_loss' = [best_loss EXCEPT ![r] =
                        IF validation_loss[r] = NaN THEN @ ELSE validation_loss[r]]
    /\ IF Less(validation_loss[r], best_loss[r])
         THEN Goto(r, "save")
         ELSE Goto(r, "for")
    /\ UNCHANGED <<active, force, cfgOK, cfgEpochs, num_epochs, iter, i,
                   train_loss, validation_loss, model, fs, hist>>

\* lines 72-73: if validation_loss < best_loss: best_loss = validation_loss.
Improved(r) ==
    /\ pc[r] = "if"
    /\ IF Less(validation_loss[r], best_loss[r])
         THEN /\ best_loss' = [best_loss EXCEPT ![r] = validation_loss[r]]
              /\ Goto(r, "save")
         ELSE /\ UNCHANGED best_loss
              /\ Goto(r, "for")
    /\ UNCHANGED <<active, force, cfgOK, cfgEpochs, num_epochs, iter, i,
                   train_loss, validation_loss, model, fs, hist>>

\* lines 75-76: torch.jit.script(model).save(output_dir / "model.pt").
SaveCheckpoint(r) ==
    /\ pc[r] = "save"
    /\ model_pt' = [exists |-> TRUE, by |-> {r},
                    data |-> Snapshot(r, i[r], model[r])]
    /\ Goto(r, "for")
    /\ UNCHANGED <<active, force, cfgOK, cfgEpochs, num_epochs, iter, i,
                   train_loss, validation_loss, best_loss, model,
                   dirExists, config_toml, training_log, hist>>

Next ==
    \/ \E r \in active : CheckExists(r)
    \/ \E r \in active : Mkdir(r)
    \/ \E r \in active : LoadConfig(r)
    \/ \E r \in active : CopyConfig(r)
    \/ \E r \in active : Build(r)
    \/ \E r \in active : WriteHeader(r)
    \/ \E r \in active : InitBestLoss(r)
    \/ \E r \in active : ForLoop(r)
    \/ \E r \in active : TrainOneEpoch(r)
    \/ \E r \in active : TestOneEpoch(r)
    \/ \E r \in active : AppendLogRow(r)
    \/ \E r \in active : Improved(r)
    \/ \E r \in active : SaveCheckpoint(r)

\* One run on the directory.
Spec == Init /\ [][Next]_vars
\* Two runs started on the same output directory.
SpecRace == InitRace /\ [][Next]_vars

\* ------------------------------------------------- vocabulary of the claims
\* The epochs whose validation loss takes part in comparisons (not NaN).
Comparable(s) == {k \in 1..Len(s) : s[k] # NaN}
\* The least validation loss of s, infinity when s has none to compare.
BestOf(s) ==
    IF Comparable(s) = {} THEN Inf
    ELSE LET k == CHOOSE k \in Comparable(s) :
                      \A j \in Comparable(s) : s[k] <= s[j]
         IN s[k]
\* The earliest epoch (1-based) whose validation loss is the least of s.
BestEpoch(s) ==
    IF Comparable(s) = {} THEN 1
    ELSE CHOOSE k \in Comparable(s) :
             \A j \in Comparable(s) : s[k] < s[j] \/ (s[k] = s[j] /\ k <= j)
\* model.pt as run r writes it at the end of epoch e (0-based).
CheckpointOf(r, e) ==
    [exists |-> TRUE, by |-> {r}, data |-> Snapshot(r, e, e + 1)]
IsDataRow(x) == DOMAIN x = {"epoch", "training_loss", "validation_loss"}
IsPrefix(s, t) == Len(s) <= Len(t) /\ SubSeq(t, 1, Len(s)) = s
\* training_log.csv after run r logged n epochs.
LogOf(r, n) ==
    <<HeaderRow>> \o [k \in 1..n |-> Row(k - 1, trainHist[r][k], valHist[r][k])]
\* The statements after training_log.csv was created.
PostHeader == {"best", "for", "train", "test", "log", "if", "save", "done"}
\* Run r is between two epochs (or before the first, or after the last).
EpochBoundary(r) == pc[r] \in {"for", "done"}
SetupOrder == <<"mkdir", "load", "copy", "build", "header">>
\* Run r wrote a file into the output directory.
Wrote(r) == \E k \in 1..Len(setup[r]) : setup[r][k] \in {"copy", "header"}

\* C1 (as stated): when a run that completed at least one epoch finishes,
\* model.pt is the snapshot taken at the end of the earliest epoch whose
\* validation loss is the minimum of the run, whatever the losses were.
C1_BestCheckpointAlways ==
    \A r \in active :
        (pc[r] = "done" /\ Len(valHist[r]) >= 1)
            => model_pt = CheckpointOf(r, BestEpoch(valHist[r]) - 1)

\* C1 (amended): when a run finishes and some epoch's validation loss was
\* below infinity, model.pt is the snapshot taken at the end of the earliest
\* epoch with the least validation loss; when no epoch's loss was below
\* infinity (all inf or NaN) the run has not written model.pt at all.
C1_BestCheckpoint ==
    \A r \in active :
        pc[r] = "done" =>
            IF \E k \in 1..Len(valHist[r]) : Less(valHist[r][k], Inf)
              THEN model_pt = CheckpointOf(r, BestEpoch(valHist[r]) - 1)
              ELSE model_pt = fs0.model

C1_Witness ==
    /\ pc[1] = "done"
    /\ valHist[1] = <<1, 0, 0>>
    /\ model_pt = CheckpointOf(1, 1)

\* C2: with --force on an existing directory, after the run each of
\* config.toml, training_log.csv and model.pt that is present was written by
\* this run and holds nothing an earlier run left.
C2_ForceOverwrites ==
    \A r \in active :
        (pc[r] = "done" /\ force[r] /\ fs0.dir) =>
            /\ config_toml.exists => config_toml.by = {r}
            /\ training_log.exists => training_log.by = {r}
            /\ model_pt.exists => model_pt.by = {r}

\* C3: a run on an existing directory without --force raises FileExistsError
\* and nothing changes: no mkdir, no config copy, no log, no epoch, no model.
C3_ExistsCheck ==
    \A r \in active :
        /\ (fs0.dir /\ ~force[r]) =>
              /\ pc[r] \in {"check", "FileExistsError"}
              /\ <<dirExists, config_toml, training_log, model_pt>>
                   = <<fs0.dir, fs0.config, fs0.log, fs0.model>>
              /\ setup[r] = <<>>
              /\ calls[r] = <<>>
        /\ pc[r] = "FileExistsError" => (fs0.dir /\ ~force[r])

C3_Witness ==
    /\ pc[1] = "FileExistsError"
    /\ model_pt = OldModel
    /\ training_log = OldLog

\* C4: train_one_epoch and test_one_epoch strictly alternate, train first,
\* call 2e+1 being the training and call 2e+2 the evaluation of epoch e; a
\* finished run made exactly num_epochs calls of each, none for num_epochs = 0.
C4_EpochCalls ==
    \A r \in active :
        /\ \A k \in 1..Len(calls[r]) :
              calls[r][k] = [fn |-> IF k % 2 = 1 THEN "train" ELSE "test",
                             epoch |-> (k - 1) \div 2]
        /\ Len(calls[r]) <= 2 * cfgEpochs[r]
        /\ pc[r] = "done" =>
              /\ Len(calls[r]) = 2 * cfgEpochs[r]
              /\ model[r] = cfgEpochs[r]

C4_Witness ==
    /\ pc[1] = "done"
    /\ cfgEpochs[1] = MaxEpochs
    /\ Len(calls[1]) = 2 * MaxEpochs

\* C5: an epoch writes model.pt if and only if its validation loss is
\* strictly below the best validation loss of the earlier epochs (infinity
\* before the first); otherwise the epoch leaves model.pt as it was.
C5_CheckpointOnImprovement ==
    [][\A r \in active :
         LET earlier == SubSeq(valHist[r], 1, Len(valHist[r]) - 1)
             better == Less(validation_loss[r], BestOf(earlier))
         IN /\ (pc[r] = "if" /\ pc'[r] # "if") =>
                  /\ pc'[r] = (IF better THEN "save" ELSE "for")
                  /\ model_pt' = model_pt
            /\ (pc[r] = "save" /\ pc'[r] # "save") =>
                  /\ pc'[r] = "for"
                  /\ model_pt' = CheckpointOf(r, i[r])
            /\ (pc[r] \in {"for", "train", "test", "log"} /\ pc'[r] # pc[r]) =>
                  model_pt' = model_pt
      ]_vars

C5_Witness ==
    /\ pc[1] = "for"
    /\ valHist[1] = <<0, 0>>
    /\ model_pt = CheckpointOf(1, 0)

\* C6: between epochs, after k completed epochs, training_log.csv is the
\* header row followed by the rows [e, train_loss_e, validation_loss_e] for
\* e = 0..k-1 in order, whatever the file held before the run; within an
\* epoch only the row of that epoch is added, and from the header on every
\* step keeps the rows already written.
C6_TrainingLog ==
    /\ [](\A r \in active :
            /\ EpochBoundary(r) =>
                  training_log = [exists |-> TRUE, by |-> {r},
                                  data |-> LogOf(r, iter[r])]
            /\ pc[r] \in {"train", "test", "log"} =>
                  training_log.data = LogOf(r, i[r])
            /\ pc[r] \in {"if", "save"} =>
                  training_log.data = LogOf(r, i[r] + 1))
    /\ [][\A r \in active :
            pc[r] \in PostHeader =>
                IsPrefix(training_log.data, training_log'.data)]_vars

C6_Witness ==
    /\ pc[1] = "done"
    /\ fs0.log = OldLog
    /\ Len(training_log.data) = 1 + MaxEpochs
    /\ training_log.data[2] = Row(0, 1, 0)

\* C7: at the end of every epoch best_loss is the minimum of the validation
\* losses of the epochs completed so far (infinity when there is none), and
\* no step increases best_loss.
C7_BestLoss ==
    /\ [](\A r \in active :
            EpochBoundary(r) => best_loss[r] = BestOf(valHist[r]))
    /\ [][\A r \in active : best_loss'[r] <= best_loss[r]]_vars

C7_Witness ==
    /\ pc[1] = "for"
    /\ valHist[1] = <<1, Inf, 0>>
    /\ best_loss[1] = 0

C9_ExclusiveDirectory ==
    Cardinality({r \in active : ~force[r] /\ Wrote(r)}) <= 1

\* C10: the setup statements run in the order mkdir, load config, copy
\* config.toml, build, create training_log.csv, all before the first epoch;
\* a run whose config cannot be loaded stops there with the directory
\* created, training_log.csv and model.pt untouched and no epoch run.
C10_SetupOrder ==
    \A r \in active :
        /\ IsPrefix(setup[r], SetupOrder)
        /\ Len(setup[r]) >= 1 => dirExists
        /\ Len(setup[r]) >= 3 <=> config_toml.by = {r}
        /\ Len(setup[r]) >= 5 <=> r \in training_log.by
        /\ Len(calls[r]) >= 1 => setup[r] = SetupOrder
        /\ pc[r] = "ConfigError" <=> (~cfgOK[r] /\ Len(setup[r]) >= 2)
        /\ ~cfgOK[r] =>
              /\ Len(setup[r]) <= 2
              /\ training_log = fs0.log
              /\ model_pt = fs0.model
              /\ calls[r] = <<>>

C10_Witness ==
    /\ pc[1] = "ConfigError"
    /\ ~fs0.dir
    /\ dirExists
    /\ ~training_log.exists

====
